---- MODULE Spec2Model ----
(***************************************************************************)
(* The S3 file provider with filename sanitization                         *)
(* (backend/src/modules/s3-file/service.ts) and its key generator          *)
(* (backend/src/utils/file-utils.ts).                                      *)
(*                                                                         *)
(* Strings are sequences of one-character strings, so that the characters  *)
(* of a key or a URL can be inspected.  A JavaScript value that is         *)
(* undefined is the one-element sequence Undefined.                        *)
(***************************************************************************)
EXTENDS Integers, Sequences, FiniteSets, TLC

VARIABLES
    clock,      \* what Date.now() returns, as [hi, lo] = hi * 10^6 + lo
    name,       \* the originalName the key generator is called with on its own
    issued,     \* the key generator's invocations on its own so far, in order
    config,     \* the provider's options (config_, bucket, fileUrl), read-only
    store,      \* the bucket: object key -> stored object
    current,       \* the provider current that is running or ran last
    started     \* number of provider calls started so far

keygenVars == <<name, issued>>

providerVars == <<config, store, current, started>>

vars == <<clock, name, issued, config, store, current, started>>

----------------------------------------------------------------------------
(* Bounds *)

\* longest originalName handed to the key generator in SpecKeyGen
MaxNameLen == 3
\* number of key generator invocations in one run of SpecKeyRepeat
MaxGen == 2
\* milliseconds the clock may advance in one run
MaxTicks == 2
\* number of distinct outcomes of the ULID random source
NumSeeds == 2
\* number of provider calls in one run of Spec
MaxCalls == 1
\* most items in one delete call
MaxDelete == 2

----------------------------------------------------------------------------
(* Strings *)

Undefined == <<"<undefined>">>

\* JavaScript truthiness of an optional string: neither undefined nor ""
Truthy(s) == s # Undefined /\ s # <<>>

DIGITS == <<"0", "1", "2", "3", "4", "5", "6", "7", "8", "9">>

\* String(n) for a natural number n
RECURSIVE DecStr(_)
DecStr(n) == IF n < 10 THEN <<DIGITS[n + 1]>>
             ELSE DecStr(n \div 10) \o <<DIGITS[(n % 10) + 1]>>

RECURSIVE ZeroPad(_, _)
ZeroPad(s, width) == IF Len(s) >= width THEN s ELSE ZeroPad(<<"0">> \o s, width)

\* the characters the sanitizer's documentation promises
SafeChars ==
    {"a", "b", "c", "d", "e", "f", "g", "h", "i", "j", "k", "l", "m",
     "n", "o", "p", "q", "r", "s", "t", "u", "v", "w", "x", "y", "z",
     "A", "B", "C", "D", "E", "F", "G", "H", "I", "J", "K", "L", "M",
     "N", "O", "P", "Q", "R", "S", "T", "U", "V", "W", "X", "Y", "Z",
     "0", "1", "2", "3", "4", "5", "6", "7", "8", "9", "_", "."}

\* characters of the filenames tried: a letter, the dot, the path separator,
\* a space and a non-ASCII character (U+6211)
NameChars == {"a", ".", "/", " ", "U+6211"}

RECURSIVE StringsUpTo(_, _)
StringsUpTo(chars, n) ==
    IF n = 0 THEN {<<>>}
    ELSE LET shorter == StringsUpTo(chars, n - 1)
         IN  shorter \cup {Append(s, c) : s \in shorter, c \in chars}

Names == StringsUpTo(NameChars, MaxNameLen) \cup {Undefined}

----------------------------------------------------------------------------
(* The clock: Date.now() is hi * 10^6 + lo, beyond 32 bits *)

InitialClock == [hi |-> 1699999, lo |-> 999999]

ClockAdd(c, d) ==
    [hi |-> c.hi + ((c.lo + d) \div 1000000), lo |-> (c.lo + d) % 1000000]

Elapsed(c) == (c.hi - InitialClock.hi) * 1000000 + c.lo - InitialClock.lo

\* `${Date.now()}`
NowStr(c) == DecStr(c.hi) \o ZeroPad(DecStr(c.lo), 6)

Mod32(c) == (((c.hi % 32) * 1000000) + c.lo) % 32

Div32(c) == [hi |-> c.hi \div 32,
             lo |-> (((c.hi % 32) * 1000000) + c.lo) \div 32]

----------------------------------------------------------------------------
(* ulid(): 10 characters of time, 16 of randomness, Crockford base 32 *)

ENCODING == <<"0", "1", "2", "3", "4", "5", "6", "7", "8", "9",
              "A", "B", "C", "D", "E", "F", "G", "H", "J", "K",
              "M", "N", "P", "Q", "R", "S", "T", "V", "W", "X",
              "Y", "Z">>

RECURSIVE encodeTime(_, _)
encodeTime(now, len) ==
    IF len = 0 THEN <<>>
    ELSE encodeTime(Div32(now), len - 1) \o <<ENCODING[Mod32(now) + 1]>>

\* the i-th draw of the random source when its outcome is `seed`
prng(seed, i) == (seed * 5 + i * 3) % 32

RECURSIVE encodeRandom(_, _)
encodeRandom(len, seed) ==
    IF len = 0 THEN <<>>
    ELSE encodeRandom(len - 1, seed) \o <<ENCODING[prng(seed, len) + 1]>>

Seeds == 0 .. (NumSeeds - 1)

\* a ulid whose random part is not drawn afresh on every call
ulidFixedRandom(now, seed) == encodeTime(now, 10) \o encodeRandom(16, 0)

ulid(now, seed) == encodeTime(now, 10) \o encodeRandom(16, seed)

----------------------------------------------------------------------------
(* path.extname (POSIX) *)

extnameStart ==
    [startDot |-> -1, startPart |-> 0, end |-> -1,
     matchedSlash |-> TRUE, preDotState |-> 0]

\* the scan from the last character (index i, from 0) to the first
RECURSIVE extnameScan(_, _, _)
extnameScan(path, i, s) ==
    IF i < 0 THEN s
    ELSE LET code == path[i + 1] IN
         IF code = "/"
         THEN IF ~s.matchedSlash
              THEN [s EXCEPT !.startPart = i + 1]
              ELSE extnameScan(path, i - 1, s)
         ELSE LET s1 == IF s.end = -1
                        THEN [s EXCEPT !.matchedSlash = FALSE, !.end = i + 1]
                        ELSE s
                  s2 == IF code = "."
                        THEN IF s1.startDot = -1
                             THEN [s1 EXCEPT !.startDot = i]
                             ELSE IF s1.preDotState # 1
                                  THEN [s1 EXCEPT !.preDotState = 1]
                                  ELSE s1
                        ELSE IF s1.startDot # -1
                             THEN [s1 EXCEPT !.preDotState = -1]
                             ELSE s1
              IN  extnameScan(path, i - 1, s2)

\* an extname that takes a leading dot of the last component for an extension
extnameIgnoringLeadingDot(path) ==
    LET s == extnameScan(path, Len(path) - 1, extnameStart)
    IN  IF s.startDot = -1 \/ s.end = -1
        THEN <<>>
        ELSE SubSeq(path, s.startDot + 1, s.end)

extname(path) ==
    LET s == extnameScan(path, Len(path) - 1, extnameStart)
    IN  IF \/ s.startDot = -1
           \/ s.end = -1
           \/ s.preDotState = 0
           \/ (s.preDotState = 1 /\ s.startDot = s.end - 1
                                 /\ s.startDot = s.startPart + 1)
        THEN <<>>
        ELSE SubSeq(path, s.startDot + 1, s.end)

----------------------------------------------------------------------------
(* sanitizeFileName: now1 is its own Date.now(), now2 the one inside ulid() *)

PROD == <<"p", "r", "o", "d", "_">>

BIN == <<".", "b", "i", "n">>

\* a sanitizeFileName without the fallback for an empty or absent name
sanitizeFileNameNoFallback(originalName, now1, now2, seed) ==
    LET ext == extname(originalName)
    IN  PROD \o NowStr(now1) \o <<"_">> \o ulid(now2, seed) \o ext

sanitizeFileName(originalName, now1, now2, seed) ==
    IF ~Truthy(originalName)
    THEN PROD \o NowStr(now1) \o <<"_">> \o ulid(now2, seed) \o BIN
    ELSE LET ext == extname(originalName)
         IN  PROD \o NowStr(now1) \o <<"_">> \o ulid(now2, seed) \o ext

----------------------------------------------------------------------------
(* The key generator on its own.  SpecKeyGen applies it once to every name *)
(* of Names; SpecKeyRepeat applies it repeatedly to one of RepeatNames.     *)

\* the provider is not running in these two specifications
ProviderAtRest ==
    /\ config = [file_url |-> Undefined, endpoint |-> Undefined,
                 s3ForcePathStyle |-> "undefined",
                 bucket |-> <<"b">>, region |-> <<"r">>]
    /\ store = <<>>
    /\ current = <<>>
    /\ started = 0

InitKeyGen ==
    /\ clock = InitialClock
    /\ name \in Names
    /\ issued = <<>>
    /\ ProviderAtRest

RepeatNames == {Undefined, <<"a">>, <<"a", ".", "a">>}

InitKeyRepeat ==
    /\ clock = InitialClock
    /\ name \in RepeatNames
    /\ issued = <<>>
    /\ ProviderAtRest

\* time passes
Tick ==
    /\ Elapsed(clock) < MaxTicks
    /\ clock' = ClockAdd(clock, 1)
    /\ UNCHANGED <<keygenVars, providerVars>>

\* one call sanitizeFileName(name), the limit-th at most; the clock may
\* advance between its two reads
Invoke(limit) ==
    /\ Len(issued) < limit
    /\ \E d \in 0 .. 1, seed \in Seeds :
         LET now1 == clock
             now2 == ClockAdd(clock, d)
         IN  /\ Elapsed(now2) <= MaxTicks
             /\ issued' = Append(issued,
                    [originalName |-> name, now1 |-> now1, now2 |-> now2,
                     seed |-> seed,
                     key |-> sanitizeFileName(name, now1, now2, seed)])
             /\ clock' = now2
    /\ UNCHANGED <<name, providerVars>>

GenerateOnce == Invoke(1)

Generate == Invoke(MaxGen)

NextKeyGen == Tick \/ GenerateOnce

SpecKeyGen == InitKeyGen /\ [][NextKeyGen]_vars

NextKeyRepeat == Tick \/ Generate

SpecKeyRepeat == InitKeyRepeat /\ [][NextKeyRepeat]_vars

----------------------------------------------------------------------------
(* The provider: values *)

HTTP == <<"h", "t", "t", "p", ":", "/", "/">>

HTTPS == <<"h", "t", "t", "p", "s", ":", "/", "/">>

\* the options the provider is constructed with in Spec
Configs ==
    [file_url : {Undefined, HTTPS \o <<"c", "/">>},
     endpoint : {HTTP \o <<"e">>},
     s3ForcePathStyle : {"undefined", "true", "false"},
     bucket : {<<"b">>},
     region : {<<"r">>}]

MedusaError(type, message) == [type |-> type, message |-> message]

NoError == MedusaError("none", <<>>)

\* messages of the errors the object store or the signer may raise
StoreErrors == {<<"AccessDenied">>, <<"SlowDown">>}

Pending == [status |-> "pending", error |-> NoError, value |-> <<>>]

Resolved(value) == [status |-> "resolved", error |-> NoError, value |-> value]

Rejected(error) == [status |-> "rejected", error |-> error, value |-> <<>>]

\* catch (error) { throw new MedusaError(UNEXPECTED_STATE, `${prefix}${error.message}`) }
Caught(prefix, error) ==
    Rejected(MedusaError("UNEXPECTED_STATE", <<prefix>> \o error.message))

\* a call: its operation and argument, where it stands, the requests it has
\* sent to the store or the signer, the last answer it got, its log lines
\* and its outcome
NoAnswer == [kind |-> "none", error |-> NoError]

Idle == [op |-> "none", pc |-> "idle", arg |-> <<>>, i |-> 0, key |-> <<>>,
         sent |-> <<>>, got |-> NoAnswer, log |-> <<>>, result |-> Pending]

\* the call receives an answer to the request it awaits
Receive(call, answer) == [call EXCEPT !.got = answer]

Begin(op, arg) == [Idle EXCEPT !.op = op, !.arg = arg]

\* the call ends with a MedusaError thrown outside any try block
Throw(call, type, message) ==
    [call EXCEPT !.pc = "done", !.result = Rejected(MedusaError(type, <<message>>))]

\* the call ends in its catch block: logger_.error, then UNEXPECTED_STATE
Catch(call, prefix, error) ==
    [call EXCEPT !.pc = "done", !.log = Append(call.log, "error"),
                 !.result = Caught(prefix, error)]

\* the call returns value
Return(call, value) == [call EXCEPT !.pc = "done", !.result = Resolved(value)]

\* logger_.info / logger_.warn
Log(call, level) == [call EXCEPT !.log = Append(call.log, level)]

\* encodeURIComponent of one character
EncodeChar(c) ==
    CASE c = " " -> <<"%", "2", "0">>
      [] c = "/" -> <<"%", "2", "F">>
      [] c = "U+6211" -> <<"%", "E", "6", "%", "8", "8", "%", "9", "1">>
      [] OTHER -> <<c>>

RECURSIVE encodeURIComponent(_)
encodeURIComponent(s) ==
    IF s = <<>> THEN <<>>
    ELSE EncodeChar(Head(s)) \o encodeURIComponent(Tail(s))

\* the filenames upload and getPresignedUploadUrl are called with
UploadNames ==
    {Undefined, <<>>, <<"a">>, <<"a", ".", "a">>, <<"U+6211", " ", ".", "a">>}

\* what file.content may be
Contents == {"Buffer", "base64 string", "binary string", "Uint8Array", "undefined"}

Files ==
    {[given |-> FALSE, filename |-> Undefined, content |-> "undefined",
      mimeType |-> Undefined]}
    \cup [given : {TRUE}, filename : UploadNames, content : Contents,
          mimeType : {<<"image/png">>}]

\* the content of upload turned into a Buffer; Buffer.from(undefined) throws
normalizeContent(content) ==
    CASE content = "Buffer" -> [threw |-> FALSE, body |-> "bytes"]
      [] content = "base64 string" -> [threw |-> FALSE, body |-> "base64-decoded bytes"]
      [] content = "binary string" -> [threw |-> FALSE, body |-> "binary-decoded bytes"]
      [] content = "Uint8Array" -> [threw |-> FALSE, body |-> "copied bytes"]
      [] OTHER -> [threw |-> TRUE, body |-> "none"]

ContentTypeError == MedusaError("TypeError", <<"The first argument must be of type string or an instance of Buffer">>)

----------------------------------------------------------------------------
(* validateOptions, constructor *)

requiredFields == <<"access_key_id", "secret_access_key", "region", "bucket">>

\* `${field} is required in the provider's options`
requiredMessage(field) == <<field, " is required in the provider's options">>

\* fields.forEach from the n-th field on: the error the first falsy field
\* throws, NoError when every field is set
RECURSIVE validateFields(_, _, _)
validateFields(options, fields, n) ==
    IF n > Len(fields) THEN NoError
    ELSE IF ~Truthy(options[fields[n]])
    THEN MedusaError("INVALID_DATA", requiredMessage(fields[n]))
    ELSE validateFields(options, fields, n + 1)

\* a validateOptions that requires the credentials only
validateOptionsCredentialsOnly(options) ==
    validateFields(options, SubSeq(requiredFields, 1, 2), 1)

validateOptions(options) == validateFields(options, requiredFields, 1)

\* clientConfig.forcePathStyle: set unless s3ForcePathStyle is false
forcePathStyle(options) == options.s3ForcePathStyle # "false"

\* the configuration the S3 client is built with
clientConfig(options) ==
    [region |-> options.region,
     credentials |-> [accessKeyId |-> options.access_key_id,
                      secretAccessKey |-> options.secret_access_key],
     endpoint |-> IF Truthy(options.endpoint) THEN options.endpoint ELSE Undefined,
     forcePathStyle |-> forcePathStyle(options)]

\* the provider instance the constructor leaves
constructor(options) ==
    [config_ |-> options, bucket |-> options.bucket,
     fileUrl |-> options.file_url, client |-> clientConfig(options)]

\* building a provider from options: the options are validated, and only
\* valid options reach the constructor
buildProvider(options) ==
    LET call == Begin("constructor", options)
        error == validateOptions(options)
    IN  IF error # NoError
        THEN [call EXCEPT !.pc = "done", !.result = Rejected(error)]
        ELSE Return(Log(call, "info"), constructor(options))

----------------------------------------------------------------------------
(* upload *)

PUBLIC_READ == <<"public-read">>

\* an ACL rule that, like the constructor, takes an unset s3ForcePathStyle
\* for path-style
putAclOnlyWhenFalse(cfg) ==
    IF cfg.s3ForcePathStyle = "false" THEN PUBLIC_READ ELSE Undefined

\* putCommandParams.ACL
putAcl(cfg) == IF cfg.s3ForcePathStyle # "true" THEN PUBLIC_READ ELSE Undefined

putCommandParams(cfg, file, fileKey, content) ==
    [cmd |-> "PutObject", Bucket |-> cfg.bucket, Key |-> fileKey,
     Body |-> content, ContentType |-> file.mimeType,
     Metadata |-> encodeURIComponent(file.filename),
     ACL |-> putAcl(cfg)]

\* s.replace(/\/$/, '')
stripTrailingSlash(s) ==
    IF s # <<>> /\ s[Len(s)] = "/" THEN SubSeq(s, 1, Len(s) - 1) ELSE s

startsWith(s, prefix) ==
    Len(s) >= Len(prefix) /\ SubSeq(s, 1, Len(prefix)) = prefix

dropPrefix(s, prefix) == SubSeq(s, Len(prefix) + 1, Len(s))

\* the protocol and the host of a custom endpoint
endpointParts(e) ==
    LET stripped == stripTrailingSlash(e)
    IN  IF startsWith(stripped, HTTP)
        THEN [protocol |-> HTTP, endpoint |-> dropPrefix(stripped, HTTP)]
        ELSE IF startsWith(stripped, HTTPS)
        THEN [protocol |-> HTTPS, endpoint |-> dropPrefix(stripped, HTTPS)]
        ELSE [protocol |-> HTTPS, endpoint |-> stripped]

AWS_SUFFIX == <<".", "a", "m", "a", "z", "o", "n", "a", "w", "s", ".", "c", "o", "m">>

\* a url derivation that, like the constructor, takes an unset
\* s3ForcePathStyle for path-style
uploadUrlPathStyleUnlessFalse(cfg, fileKey) ==
    IF Truthy(cfg.file_url)
    THEN stripTrailingSlash(cfg.file_url) \o <<"/">> \o fileKey
    ELSE IF Truthy(cfg.endpoint)
    THEN LET e == endpointParts(cfg.endpoint)
         IN  IF cfg.s3ForcePathStyle # "false"
             THEN e.protocol \o e.endpoint \o <<"/">> \o cfg.bucket \o <<"/">> \o fileKey
             ELSE e.protocol \o cfg.bucket \o <<".">> \o e.endpoint \o <<"/">> \o fileKey
    ELSE HTTPS \o cfg.bucket \o <<".", "s", "3", ".">> \o cfg.region
             \o AWS_SUFFIX \o <<"/">> \o fileKey

\* the url upload returns
uploadUrl(cfg, fileKey) ==
    IF Truthy(cfg.file_url)
    THEN stripTrailingSlash(cfg.file_url) \o <<"/">> \o fileKey
    ELSE IF Truthy(cfg.endpoint)
    THEN LET e == endpointParts(cfg.endpoint)
         IN  IF cfg.s3ForcePathStyle = "true"
             THEN e.protocol \o e.endpoint \o <<"/">> \o cfg.bucket \o <<"/">> \o fileKey
             ELSE e.protocol \o cfg.bucket \o <<".">> \o e.endpoint \o <<"/">> \o fileKey
    ELSE HTTPS \o cfg.bucket \o <<".", "s", "3", ".">> \o cfg.region
             \o AWS_SUFFIX \o <<"/">> \o fileKey

\* an upload that does not check file.filename
uploadBeginUncheckedName(cfg, file, now1, now2, seed) ==
    LET call == Begin("upload", file) IN
    IF ~file.given
    THEN Throw(call, "INVALID_DATA", "No file provided")
    ELSE LET fileKey == sanitizeFileName(file.filename, now1, now2, seed)
             content == normalizeContent(file.content)
         IN  IF content.threw
             THEN Catch([call EXCEPT !.key = fileKey],
                        "Failed to upload file: ", ContentTypeError)
             ELSE [call EXCEPT !.pc = "await_put", !.key = fileKey,
                       !.sent = <<putCommandParams(cfg, file, fileKey, content.body)>>]

\* upload(file) up to its await: validation, key, content, the PUT sent
uploadBegin(cfg, file, now1, now2, seed) ==
    LET call == Begin("upload", file) IN
    IF ~file.given
    THEN Throw(call, "INVALID_DATA", "No file provided")
    ELSE IF ~Truthy(file.filename)
    THEN Throw(call, "INVALID_DATA", "No filename provided")
    ELSE LET fileKey == sanitizeFileName(file.filename, now1, now2, seed)
             content == normalizeContent(file.content)
         IN  IF content.threw
             THEN Catch([call EXCEPT !.key = fileKey],
                        "Failed to upload file: ", ContentTypeError)
             ELSE [call EXCEPT !.pc = "await_put", !.key = fileKey,
                       !.sent = <<putCommandParams(cfg, file, fileKey, content.body)>>]

\* an upload that sends its PUT again when the store rejects it
uploadRetrying(cfg, call, response) ==
    IF response.kind = "ok"
    THEN Return(Log(call, "info"), [url |-> uploadUrl(cfg, call.key), key |-> call.key])
    ELSE IF Len(call.sent) < 2
    THEN [call EXCEPT !.sent = Append(call.sent, call.sent[1])]
    ELSE Catch(call, "Failed to upload file: ", response.error)

\* an upload that returns its url and key whatever the store answered
uploadEndUnacknowledged(cfg, call, response) ==
    Return(Log(call, "info"), [url |-> uploadUrl(cfg, call.key), key |-> call.key])

\* upload(file) after its await: the url returned, or the store's error wrapped
uploadEnd(cfg, call, response) ==
    IF response.kind = "ok"
    THEN Return(Log(call, "info"), [url |-> uploadUrl(cfg, call.key), key |-> call.key])
    ELSE Catch(call, "Failed to upload file: ", response.error)

\* what the store may answer to a request
Responses ==
    {[kind |-> "ok", error |-> NoError]}
    \cup {[kind |-> "error", error |-> MedusaError("S3ServiceException", e)] : e \in StoreErrors}

\* the object a PUT leaves in the bucket
StoredObject(put) ==
    [Body |-> put.Body, Metadata |-> put.Metadata, ACL |-> put.ACL]

\* the bucket with key k set to object o
Put(st, k, o) == [x \in DOMAIN st \cup {k} |-> IF x = k THEN o ELSE st[x]]

\* the bucket without key k
Remove(st, k) == [x \in DOMAIN st \ {k} |-> st[x]]

CanStart == current.pc \in {"idle", "done"} /\ started < MaxCalls

UploadOf(files) ==
    /\ CanStart
    /\ \E file \in files, d \in 0 .. 1, seed \in Seeds :
         LET now2 == ClockAdd(clock, d)
             reads == file.given /\ Truthy(file.filename)
         IN  /\ Elapsed(now2) <= MaxTicks
             /\ reads \/ (d = 0 /\ seed = 0)
             /\ current' = uploadBegin(config, file, clock, now2, seed)
             /\ clock' = IF reads THEN now2 ELSE clock
    /\ started' = started + 1
    /\ UNCHANGED <<keygenVars, config, store>>

Upload == UploadOf(Files)

UploadSettle ==
    /\ current.pc = "await_put"
    /\ \E response \in Responses :
         /\ current' = uploadEnd(config, Receive(current, response), response)
         /\ store' = IF response.kind = "ok"
                     THEN Put(store, current.sent[1].Key, StoredObject(current.sent[1]))
                     ELSE store
    /\ UNCHANGED <<clock, keygenVars, config, started>>

----------------------------------------------------------------------------
(* delete *)

\* a key under which the bucket never holds an object
NO_SUCH_KEY == <<"n">>

\* the fileKey values the callers pass: absent, empty, a key of the bucket, a
\* key of no object
KeyArgs == {Undefined, <<>>, NO_SUCH_KEY} \cup DOMAIN store

RECURSIVE SeqsUpTo(_, _)
SeqsUpTo(S, n) ==
    IF n = 0 THEN {<<>>}
    ELSE LET shorter == SeqsUpTo(S, n - 1)
         IN  shorter \cup {Append(q, x) : q \in shorter, x \in S}

\* fileData of delete: one item, or an array of items
DeleteArgs ==
    {[array |-> FALSE, items |-> <<k>>] : k \in KeyArgs}
    \cup {[array |-> TRUE, items |-> q] : q \in SeqsUpTo(KeyArgs, MaxDelete)}

deleteCommand(cfg, fileKey) ==
    [cmd |-> "DeleteObject", Bucket |-> cfg.bucket, Key |-> fileKey]

\* the loop of delete from item i up to the next await
deleteLoop(cfg, call, i) ==
    IF i > Len(call.arg.items)
    THEN Return(call, <<>>)
    ELSE IF ~Truthy(call.arg.items[i])
    THEN Throw(call, "INVALID_DATA", "No file key provided")
    ELSE [call EXCEPT !.pc = "await_delete", !.i = i,
              !.sent = Append(call.sent, deleteCommand(cfg, call.arg.items[i]))]

\* a delete that gives up at the first DELETE the store rejects
deleteResumeAborting(cfg, call, response) ==
    IF response.kind = "ok"
    THEN deleteLoop(cfg, Log(call, "info"), call.i + 1)
    ELSE Catch(call, "Failed to delete file: ", response.error)

\* delete after the await of item i: log, then on to the next item
deleteResume(cfg, call, response) ==
    IF response.kind = "ok"
    THEN deleteLoop(cfg, Log(call, "info"), call.i + 1)
    ELSE deleteLoop(cfg, Log(call, "warn"), call.i + 1)

Delete ==
    /\ CanStart
    /\ \E fileData \in DeleteArgs :
         current' = deleteLoop(config, Begin("delete", fileData), 1)
    /\ started' = started + 1
    /\ UNCHANGED <<clock, keygenVars, config, store>>

\* what the store may answer to a DELETE: the message of a rejection only
\* reaches the warning that delete logs, so one message stands for all
DeleteResponses ==
    {[kind |-> "ok", error |-> NoError],
     [kind |-> "error", error |-> MedusaError("S3ServiceException", <<"AccessDenied">>)]}

DeleteSettle ==
    /\ current.pc = "await_delete"
    /\ \E response \in DeleteResponses :
         /\ current' = deleteResume(config, Receive(current, response), response)
         /\ store' = IF response.kind = "ok"
                     THEN Remove(store, current.sent[Len(current.sent)].Key)
                     ELSE store
    /\ UNCHANGED <<clock, keygenVars, config, started>>

----------------------------------------------------------------------------
(* getPresignedDownloadUrl, getPresignedUploadUrl *)

getObjectCommand(cfg, fileKey) ==
    [cmd |-> "GetObject", Bucket |-> cfg.bucket, Key |-> fileKey]

signRequest(command, expiresIn) ==
    [cmd |-> "getSignedUrl", command |-> command, expiresIn |-> expiresIn]

\* the URL getSignedUrl returns for a request: it addresses the command's
\* bucket and key and is valid for expiresIn seconds
signedUrl(request) ==
    [signed |-> request.command.cmd, bucket |-> request.command.Bucket,
     key |-> request.command.Key, expiresIn |-> request.expiresIn]

presignedDownloadBegin(cfg, fileData) ==
    LET call == Begin("getPresignedDownloadUrl", fileData) IN
    IF ~Truthy(fileData)
    THEN Throw(call, "INVALID_DATA", "No file key provided")
    ELSE [call EXCEPT !.pc = "await_sign", !.key = fileData,
              !.sent = <<signRequest(getObjectCommand(cfg, fileData), 24 * 60 * 60)>>]

presignedDownloadEnd(call, response) ==
    IF response.kind = "ok"
    THEN Return(Log(call, "info"), signedUrl(call.sent[1]))
    ELSE Catch(call, "Failed to generate presigned URL: ", response.error)

\* a getPresignedUploadUrl that signs the PUT for the filename itself
presignedUploadBeginRawKey(cfg, filename, now1, now2, seed) ==
    LET call == Begin("getPresignedUploadUrl", filename) IN
    IF ~Truthy(filename)
    THEN Throw(call, "INVALID_DATA", "No filename provided")
    ELSE [call EXCEPT !.pc = "await_sign", !.key = filename,
              !.sent = <<signRequest([cmd |-> "PutObject", Bucket |-> cfg.bucket,
                                      Key |-> filename], 15 * 60)>>]

presignedUploadBegin(cfg, filename, now1, now2, seed) ==
    LET call == Begin("getPresignedUploadUrl", filename) IN
    IF ~Truthy(filename)
    THEN Throw(call, "INVALID_DATA", "No filename provided")
    ELSE LET fileKey == sanitizeFileName(filename, now1, now2, seed)
         IN  [call EXCEPT !.pc = "await_sign", !.key = fileKey,
                  !.sent = <<signRequest([cmd |-> "PutObject", Bucket |-> cfg.bucket,
                                          Key |-> fileKey], 15 * 60)>>]

presignedUploadEnd(call, response) ==
    IF response.kind = "ok"
    THEN Return(call, [url |-> signedUrl(call.sent[1]), key |-> call.key])
    ELSE Catch(call, "Failed to generate presigned upload URL: ", response.error)

GetPresignedDownloadUrl ==
    /\ CanStart
    /\ \E fileKey \in KeyArgs :
         current' = presignedDownloadBegin(config, fileKey)
    /\ started' = started + 1
    /\ UNCHANGED <<clock, keygenVars, config, store>>

GetPresignedUploadUrl ==
    /\ CanStart
    /\ \E filename \in UploadNames, d \in 0 .. 1, seed \in Seeds :
         LET now2 == ClockAdd(clock, d)
             reads == Truthy(filename)
         IN  /\ Elapsed(now2) <= MaxTicks
             /\ reads \/ (d = 0 /\ seed = 0)
             /\ current' = presignedUploadBegin(config, filename, clock, now2, seed)
             /\ clock' = IF reads THEN now2 ELSE clock
    /\ started' = started + 1
    /\ UNCHANGED <<keygenVars, config, store>>

SignSettle ==
    /\ current.pc = "await_sign"
    /\ \E response \in Responses :
         current' = IF current.op = "getPresignedDownloadUrl"
                      THEN presignedDownloadEnd(Receive(current, response), response)
                      ELSE presignedUploadEnd(Receive(current, response), response)
    /\ UNCHANGED <<clock, keygenVars, config, store, started>>

----------------------------------------------------------------------------
(* getAsBuffer, getDownloadStream *)

\* what a GET may come to: the store raises an error, answers without a Body,
\* answers with a Body (of an object it holds), and for getAsBuffer the Body
\* stream may fail while it is read
GetOutcomes(fileKey) ==
    {[kind |-> "error", error |-> MedusaError("S3ServiceException", e)] : e \in StoreErrors}
    \cup {[kind |-> "no body", error |-> NoError]}
    \cup (IF fileKey \in DOMAIN store
          THEN {[kind |-> "body", error |-> NoError],
                [kind |-> "stream error", error |-> MedusaError("Error", <<"aborted">>)]}
          ELSE {})

getBegin(op, cfg, fileData) ==
    LET call == Begin(op, fileData) IN
    IF ~Truthy(fileData)
    THEN Throw(call, "INVALID_DATA", "No file key provided")
    ELSE [call EXCEPT !.pc = "await_get", !.key = fileData,
              !.sent = <<getObjectCommand(cfg, fileData)>>]

\* the try block after the await: [threw, error, value]
getTry(call, outcome, body) ==
    CASE outcome.kind = "error" ->
            [threw |-> TRUE, error |-> outcome.error, value |-> <<>>]
      [] outcome.kind = "no body" ->
            [threw |-> TRUE, value |-> <<>>,
             error |-> MedusaError("NOT_FOUND",
                           <<"File ">> \o call.key \o <<" not found or empty">>)]
      [] outcome.kind = "stream error" /\ call.op = "getAsBuffer" ->
            [threw |-> TRUE, error |-> outcome.error, value |-> <<>>]
      [] OTHER ->
            [threw |-> FALSE, error |-> NoError, value |-> <<body>>]

\* getAsBuffer / getDownloadStream after the await: everything thrown in the
\* try block, the NOT_FOUND included, reaches the catch block
getEnd(call, outcome, body) ==
    LET t == getTry(call, outcome, body)
        prefix == IF call.op = "getAsBuffer" THEN "Failed to get buffer: "
                  ELSE "Failed to get download stream: "
    IN  IF t.threw THEN Catch(call, prefix, t.error)
        ELSE Return(Log(call, "info"), t.value)

GetAsBuffer ==
    /\ CanStart
    /\ \E fileKey \in KeyArgs :
         current' = getBegin("getAsBuffer", config, fileKey)
    /\ started' = started + 1
    /\ UNCHANGED <<clock, keygenVars, config, store>>

GetDownloadStream ==
    /\ CanStart
    /\ \E fileKey \in KeyArgs :
         current' = getBegin("getDownloadStream", config, fileKey)
    /\ started' = started + 1
    /\ UNCHANGED <<clock, keygenVars, config, store>>

GetSettle ==
    /\ current.pc = "await_get"
    /\ \E outcome \in GetOutcomes(current.key) :
         current' = getEnd(Receive(current, outcome), outcome,
                             IF current.key \in DOMAIN store
                             THEN store[current.key].Body ELSE "none")
    /\ UNCHANGED <<clock, keygenVars, config, store, started>>

----------------------------------------------------------------------------
(* Spec: the provider, one call after another.  Time advances when a call   *)
(* reads the clock.                                                         *)

\* an object uploaded before the provider was built
LegacyObject == [Body |-> "bytes", Metadata |-> <<"o">>, ACL |-> Undefined]

Init ==
    /\ clock = InitialClock
    /\ name = Undefined
    /\ issued = <<>>
    /\ config \in Configs
    /\ store = [k \in {<<"o">>} |-> LegacyObject]
    /\ current = Idle
    /\ started = 0

Next ==
    \/ Upload
    \/ UploadSettle
    \/ Delete
    \/ DeleteSettle
    \/ GetPresignedDownloadUrl
    \/ GetPresignedUploadUrl
    \/ SignSettle
    \/ GetAsBuffer
    \/ GetDownloadStream
    \/ GetSettle

Spec == Init /\ [][Next]_vars

----------------------------------------------------------------------------
(* SpecUrl: uploads of a plain file under every shape of the url options *)

UrlConfigs ==
    [file_url : {Undefined, <<>>, HTTPS \o <<"c">>, HTTPS \o <<"c", "/">>,
                 HTTPS \o <<"c", "/", "/">>, HTTP \o <<"c", "/", "p", "/">>},
     endpoint : {Undefined, <<>>, <<"e">>, <<"e", "/">>, HTTP \o <<"e">>,
                 HTTPS \o <<"e">>, HTTP \o <<"e", ":", "9", "/">>,
                 HTTPS \o <<"e", "/">>},
     s3ForcePathStyle : {"undefined", "true", "false"},
     bucket : {<<"b">>},
     region : {<<"r">>}]

PlainFiles ==
    {[given |-> TRUE, filename |-> <<"a", ".", "a">>, content |-> "Buffer",
      mimeType |-> <<"image/png">>]}

InitUrl ==
    /\ clock = InitialClock
    /\ name = Undefined
    /\ issued = <<>>
    /\ config \in UrlConfigs
    /\ store = [k \in {<<"o">>} |-> LegacyObject]
    /\ current = Idle
    /\ started = 0

UploadPlain == UploadOf(PlainFiles)

NextUrl == UploadPlain \/ UploadSettle

SpecUrl == InitUrl /\ [][NextUrl]_vars

----------------------------------------------------------------------------
(* SpecBuild: a provider is built from options of every shape *)

\* what a required option may be: absent, empty, set
OptionValues == {Undefined, <<>>, <<"v">>}

BuildOptions ==
    [access_key_id : OptionValues,
     secret_access_key : OptionValues,
     region : OptionValues,
     bucket : OptionValues,
     file_url : {Undefined},
     endpoint : {Undefined, HTTP \o <<"e">>},
     s3ForcePathStyle : {"undefined", "true", "false"}]

InitBuild ==
    /\ clock = InitialClock
    /\ name = Undefined
    /\ issued = <<>>
    /\ config \in BuildOptions
    /\ store = <<>>
    /\ current = Idle
    /\ started = 0

Construct ==
    /\ CanStart
    /\ current' = buildProvider(config)
    /\ started' = started + 1
    /\ UNCHANGED <<clock, keygenVars, config, store>>

NextBuild == Construct

SpecBuild == InitBuild /\ [][NextBuild]_vars

----------------------------------------------------------------------------
(* The key generator's claims *)

IsSafe(key) == \A j \in 1 .. Len(key) : key[j] \in SafeChars

Range(s) == {s[j] : j \in 1 .. Len(s)}

\* index of the last c in s, 0 when there is none
LastIndexOf(s, c) ==
    IF \E j \in 1 .. Len(s) : s[j] = c
    THEN CHOOSE j \in 1 .. Len(s) : s[j] = c /\ \A k \in (j + 1) .. Len(s) : s[k] # c
    ELSE 0

\* the input from its last dot to its end, "" when it has no dot
FromLastDot(s) ==
    IF LastIndexOf(s, ".") = 0 THEN <<>> ELSE SubSeq(s, LastIndexOf(s, "."), Len(s))

\* s without the "/" characters that end it
RECURSIVE DropTrailingSlashes(_)
DropTrailingSlashes(s) ==
    IF s # <<>> /\ s[Len(s)] = "/" THEN DropTrailingSlashes(SubSeq(s, 1, Len(s) - 1))
    ELSE s

\* the last path component of s: what follows the last "/" once the trailing
\* ones are dropped
LastComponent(s) ==
    LET t == DropTrailingSlashes(s)
    IN  SubSeq(t, LastIndexOf(t, "/") + 1, Len(t))

\* the extension of a filename, stated on its last path component
ComponentExtension(s) ==
    LET c == LastComponent(s)
        d == LastIndexOf(c, ".")
    IN  IF d = 0 \/ d = 1 \/ c = <<".", ".">> THEN <<>> ELSE SubSeq(c, d, Len(c))

\* key is prod_<13 digits>_<26 token characters><ext>
HasKeyForm(key, ext) ==
    /\ Len(key) = 45 + Len(ext)
    /\ SubSeq(key, 1, 5) = PROD
    /\ \A j \in 6 .. 18 : key[j] \in Range(DIGITS)
    /\ key[19] = "_"
    /\ \A j \in 20 .. 45 : key[j] \in Range(ENCODING)
    /\ SubSeq(key, 46, Len(key)) = ext

\* C4 (as claimed): for every input filename the generated key consists only
\* of characters in [A-Za-z0-9_.].
C4_KeyCharsSafe == \A i \in 1 .. Len(issued) : IsSafe(issued[i].key)

\* C5 (as claimed): for every non-empty input the key is
\* prod_<13 digits>_<26-character token><ext> with <ext> the input from its
\* last dot to its end, or empty when the input has no dot.
C5_ExtFromLastDot ==
    \A i \in 1 .. Len(issued) :
        Truthy(issued[i].originalName)
            => HasKeyForm(issued[i].key, FromLastDot(issued[i].originalName))

\* C5 (amended): for every non-empty input the key is
\* prod_<13 digits>_<26-character token><ext>, the 13 digits being the
\* millisecond clock in decimal, with <ext> the extension of the input's last
\* path component (trailing "/" ignored): that component from its last dot
\* to its end, or empty when the component has no dot, when its last dot is
\* its first character, or when it is "..".
C5_ExtOfLastComponent ==
    \A i \in 1 .. Len(issued) :
        Truthy(issued[i].originalName)
            => /\ HasKeyForm(issued[i].key,
                             ComponentExtension(issued[i].originalName))
               /\ SubSeq(issued[i].key, 6, 18) = NowStr(issued[i].now1)

\* C5 witness: a key was generated for a name whose extension is not empty
\* and is not the name from its last dot on (such as "a./").
C5_Witness ==
    \E i \in 1 .. Len(issued) :
        /\ Truthy(issued[i].originalName)
        /\ ComponentExtension(issued[i].originalName) # <<>>
        /\ ComponentExtension(issued[i].originalName)
               # FromLastDot(issued[i].originalName)

----------------------------------------------------------------------------
(* The provider's claims *)

\* an argument that is absent or empty
Missing(x) == x = Undefined \/ x = <<>>

Done(op) == current.op = op /\ current.pc = "done"

RejectedWith(type) ==
    current.result.status = "rejected" /\ current.result.error.type = type

IsGet == current.op \in {"getAsBuffer", "getDownloadStream"}

\* C1 (as claimed): getAsBuffer and getDownloadStream, called with a non-empty
\* fileKey and answered by the store without a Body, fail with NOT_FOUND and
\* not with UNEXPECTED_STATE.
C1_NoBodyIsNotFound ==
    (IsGet /\ current.pc = "done" /\ ~Missing(current.arg)
           /\ current.got.kind = "no body")
        => RejectedWith("NOT_FOUND")

\* C2 (as claimed): a delete in which any item lacks a non-empty fileKey fails
\* with INVALID_DATA before any DELETE request is sent: when the error is
\* raised, no DELETE has been sent and no object has been deleted.
C2_NoDeleteBeforeInvalidInput ==
    (Done("delete") /\ RejectedWith("INVALID_DATA"))
        => /\ current.sent = <<>>
           /\ <<"o">> \in DOMAIN store

\* C3: a delete whose items all carry a non-empty fileKey sends one DELETE per
\* item, in input order and each only after the answer to the one before; a
\* DELETE the store rejects is logged as a warning and nothing else, the
\* remaining DELETEs are still sent, and the call resolves.
C3_DeleteEachInOrder ==
    (current.op = "delete"
        /\ \A j \in 1 .. Len(current.arg.items) : ~Missing(current.arg.items[j]))
        => LET items == current.arg.items
               sent == current.sent
               log == current.log
           IN  /\ Len(sent) <= Len(items)
               /\ \A j \in 1 .. Len(sent) :
                     /\ sent[j].cmd = "DeleteObject"
                     /\ sent[j].Key = items[j]
               /\ \A j \in 1 .. Len(log) : log[j] \in {"info", "warn"}
               /\ current.pc = "await_delete" => Len(sent) = Len(log) + 1
               /\ current.pc = "await_delete" \/ current.pc = "done"
               /\ current.pc = "done"
                     => /\ Len(sent) = Len(items)
                        /\ Len(log) = Len(items)
                        /\ current.result.status = "resolved"
               /\ (Len(log) > 0 /\ Len(log) = Len(sent))
                     => (log[Len(log)] = "warn" <=> current.got.kind = "error")

\* C3 witness: a delete of two items has resolved although the store
\* rejected the first DELETE; the second was still sent.
C3_Witness ==
    /\ Done("delete")
    /\ Len(current.arg.items) = 2
    /\ Len(current.sent) = 2
    /\ current.log[1] = "warn"
    /\ current.result.status = "resolved"

\* C7: upload with an absent file or an absent or empty filename, and
\* getPresignedDownloadUrl, getAsBuffer and getDownloadStream with a missing
\* fileKey, fail with INVALID_DATA and send no request to the store or the
\* signer.
C7_InvalidInputSendsNothing ==
    LET invalid ==
            \/ /\ current.op = "upload"
               /\ ~current.arg.given \/ Missing(current.arg.filename)
            \/ /\ current.op \in {"getPresignedDownloadUrl", "getAsBuffer",
                                  "getDownloadStream"}
               /\ Missing(current.arg)
    IN  invalid => /\ current.pc = "done"
                   /\ RejectedWith("INVALID_DATA")
                   /\ current.sent = <<>>
                   /\ current.got = NoAnswer

\* C7 witness: an upload with an empty filename has failed.
C7_Witness ==
    /\ Done("upload")
    /\ current.arg.given
    /\ current.arg.filename = <<>>
    /\ RejectedWith("INVALID_DATA")

Configured(x) == ~Missing(x)

EndsWithSlash(x) == x # <<>> /\ x[Len(x)] = "/"

\* the splits of x into a first part and a rest
Splits(x) == {<<SubSeq(x, 1, n), SubSeq(x, n + 1, Len(x))>> : n \in 0 .. Len(x)}

\* url is <protocol><host>/<bucket>/<key> (path-style) or
\* <protocol><bucket>.<host>/<key>, where the endpoint reads
\* [http:// or https://]<host>[/], the protocol being https when the endpoint
\* names none
IsEndpointUrl(url, endpoint, pathStyle, bucket, key) ==
    \E scheme \in {<<>>, HTTP, HTTPS}, slash \in {<<>>, <<"/">>} :
        \E split \in Splits(endpoint) :
            LET host == SubSeq(split[2], 1, Len(split[2]) - Len(slash))
                protocol == IF scheme = <<>> THEN HTTPS ELSE scheme
            IN  /\ split[1] = scheme
                /\ split[2] = host \o slash
                /\ scheme = <<>> => \A p \in {HTTP, HTTPS} :
                                        ~(Len(endpoint) >= Len(p)
                                          /\ SubSeq(endpoint, 1, Len(p)) = p)
                /\ slash = <<>> => ~EndsWithSlash(endpoint)
                /\ url = IF pathStyle
                         THEN protocol \o host \o <<"/">> \o bucket \o <<"/">> \o key
                         ELSE protocol \o bucket \o <<".">> \o host \o <<"/">> \o key

\* C8: the url of a successful upload is (a) the public base URL, its
\* trailing slash removed, then "/" and the key, whenever a base URL is
\* configured; else (b) with a custom endpoint, protocol + endpoint/bucket/key
\* when s3ForcePathStyle is true and protocol + bucket.endpoint/key when it is
\* false or unset; else (c) https://<bucket>.s3.<region>.amazonaws.com/<key>.
C8_UrlPrecedence ==
    (Done("upload") /\ current.result.status = "resolved")
        => LET url == current.result.value.url
               key == current.sent[1].Key
               base == config.file_url
           IN  /\ current.result.value.key = key
               /\ Configured(base)
                     => \/ /\ EndsWithSlash(base)
                           /\ url = SubSeq(base, 1, Len(base) - 1) \o <<"/">> \o key
                        \/ /\ ~EndsWithSlash(base)
                           /\ url = base \o <<"/">> \o key
               /\ (~Configured(base) /\ Configured(config.endpoint))
                     => IsEndpointUrl(url, config.endpoint,
                                      config.s3ForcePathStyle = "true",
                                      config.bucket, key)
               /\ (~Configured(base) /\ ~Configured(config.endpoint))
                     => url = HTTPS \o config.bucket \o <<".", "s", "3", ".">>
                                \o config.region
                                \o <<".", "a", "m", "a", "z", "o", "n", "a", "w",
                                     "s", ".", "c", "o", "m", "/">>
                                \o key

\* C8 witness: an upload has returned a url derived from a custom endpoint
\* that names no protocol, with s3ForcePathStyle unset and no base URL.
C8_Witness ==
    /\ Done("upload")
    /\ current.result.status = "resolved"
    /\ ~Configured(config.file_url)
    /\ config.endpoint = <<"e", "/">>
    /\ config.s3ForcePathStyle = "undefined"

\* C9: the PUT of upload carries no ACL when s3ForcePathStyle is true and
\* ACL "public-read" when it is false or unset.
C9_AclUnlessPathStyle ==
    (current.op = "upload" /\ current.sent # <<>>)
        => /\ current.sent[1].cmd = "PutObject"
           /\ config.s3ForcePathStyle = "true"
                 => current.sent[1].ACL = Undefined
           /\ config.s3ForcePathStyle \in {"false", "undefined"}
                 => current.sent[1].ACL = <<"public-read">>

\* C9 witness: an upload has sent its PUT with s3ForcePathStyle unset.
C9_Witness ==
    /\ current.op = "upload"
    /\ current.sent # <<>>
    /\ config.s3ForcePathStyle = "undefined"

\* C10: when the store rejects the PUT of upload, upload fails with
\* UNEXPECTED_STATE carrying the store's message, returns nothing, changes no
\* object and has sent exactly one PUT; when the PUT succeeds, exactly one PUT
\* was sent and exactly one object, the one under the PUT's key, was written.
C10_OnePutNoRetry ==
    [][(current.op = "upload" /\ current.pc = "await_put" /\ current' # current)
        => /\ current'.pc = "done"
           /\ Len(current'.sent) = 1
           /\ current'.sent[1].cmd = "PutObject"
           /\ current'.got.kind \in {"ok", "error"}
           /\ current'.got.kind = "error"
                 => /\ current'.result.status = "rejected"
                    /\ current'.result.error.type = "UNEXPECTED_STATE"
                    /\ current'.result.error.message
                           = <<"Failed to upload file: ">> \o current'.got.error.message
                    /\ current'.result.value = <<>>
                    /\ store' = store
           /\ current'.got.kind = "ok"
                 => /\ current'.result.status = "resolved"
                    /\ DOMAIN store' = DOMAIN store \cup {current'.sent[1].Key}
                    /\ \A k \in DOMAIN store :
                           k # current'.sent[1].Key => store'[k] = store[k]
                    /\ store'[current'.sent[1].Key].Body = current'.sent[1].Body
       ]_vars

\* C10 witness: an upload has failed after the store rejected its one PUT.
C10_Witness ==
    /\ Done("upload")
    /\ current.got.kind = "error"
    /\ Len(current.sent) = 1
    /\ RejectedWith("UNEXPECTED_STATE")

\* C11 (as claimed): every PUT of the provider, the one upload sends and the
\* one getPresignedUploadUrl signs, carries the metadata entry
\* 'original-filename' with the percent-encoded filename of the caller, and so
\* does the object an acknowledged upload leaves in the bucket.
C11_EveryPutCarriesFilename ==
    /\ (current.op = "upload" /\ current.sent # <<>>)
          => /\ "Metadata" \in DOMAIN current.sent[1]
             /\ current.sent[1].Metadata = encodeURIComponent(current.arg.filename)
             /\ current.got.kind = "ok"
                   => store[current.sent[1].Key].Metadata
                          = encodeURIComponent(current.arg.filename)
    /\ (current.op = "getPresignedUploadUrl" /\ current.sent # <<>>)
          => /\ current.sent[1].command.cmd = "PutObject"
             /\ "Metadata" \in DOMAIN current.sent[1].command
             /\ current.sent[1].command.Metadata = encodeURIComponent(current.arg)

\* the required options that are absent or empty
MissingFields(options) ==
    {requiredFields[n] : n \in {m \in 1 .. Len(requiredFields) :
                                    Missing(options[requiredFields[m]])}}

\* C12: building a provider from options in which a required field
\* (access_key_id, secret_access_key, region, bucket) is absent or empty
\* fails with INVALID_DATA and a message that names a missing field, and
\* leaves no provider instance and no S3 client; options with every required
\* field set yield an instance whose client has their region and credentials.
C12_MissingFieldFailsBuild ==
    Done("constructor")
        => /\ MissingFields(current.arg) # {}
                 => /\ RejectedWith("INVALID_DATA")
                    /\ current.result.error.message[1] \in MissingFields(current.arg)
                    /\ current.result.error.message
                           = requiredMessage(current.result.error.message[1])
                    /\ current.result.value = <<>>
                    /\ current.log = <<>>
           /\ MissingFields(current.arg) = {}
                 => /\ current.result.status = "resolved"
                    /\ current.result.value.bucket = current.arg.bucket
                    /\ current.result.value.client.region = current.arg.region
                    /\ current.result.value.client.credentials
                           = [accessKeyId |-> current.arg.access_key_id,
                              secretAccessKey |-> current.arg.secret_access_key]

\* C12 witness: a build has failed for options whose only missing field is
\* the bucket, which is empty.
C12_Witness ==
    /\ Done("constructor")
    /\ MissingFields(current.arg) = {"bucket"}
    /\ current.arg.bucket = <<>>
    /\ RejectedWith("INVALID_DATA")

\* C13: getPresignedUploadUrl called with a non-empty filename asks the
\* signer once, for a PUT valid 15 minutes on the provider's bucket under a
\* key of the key generator's form for that filename
\* (prod_<clock>_<token><extension of the filename>), never under the
\* filename itself; when it returns, the key it returns is the key of the
\* signed PUT, which is the key the returned url addresses.
C13_PresignedPutForGeneratedKey ==
    (current.op = "getPresignedUploadUrl" /\ ~Missing(current.arg))
        => /\ Len(current.sent) = 1
           /\ current.sent[1].cmd = "getSignedUrl"
           /\ current.sent[1].expiresIn = 900
           /\ current.sent[1].command.cmd = "PutObject"
           /\ current.sent[1].command.Bucket = config.bucket
           /\ HasKeyForm(current.sent[1].command.Key,
                         ComponentExtension(current.arg))
           /\ current.sent[1].command.Key # current.arg
           /\ current.result.status = "resolved"
                 => /\ current.result.value.key = current.sent[1].command.Key
                    /\ current.result.value.url.signed = "PutObject"
                    /\ current.result.value.url.bucket = config.bucket
                    /\ current.result.value.url.key = current.result.value.key
                    /\ current.result.value.url.expiresIn = 15 * 60

\* C13 witness: getPresignedUploadUrl has returned for a filename that holds
\* a non-ASCII character and a space.
C13_Witness ==
    /\ Done("getPresignedUploadUrl")
    /\ current.arg = <<"U+6211", " ", ".", "a">>
    /\ current.result.status = "resolved"

\* C14: the key generator called with an empty or absent filename returns a
\* key prod_<13 digits of the clock>_<26-character token>.bin, all of whose
\* characters are in [A-Za-z0-9_.].
C14_FallbackKeyIsBin ==
    \A i \in 1 .. Len(issued) :
        Missing(issued[i].originalName)
            => /\ HasKeyForm(issued[i].key, <<".", "b", "i", "n">>)
               /\ SubSeq(issued[i].key, 6, 18) = NowStr(issued[i].now1)
               /\ IsSafe(issued[i].key)

\* C14 witness: a key was generated for the empty filename.
C14_Witness ==
    \E i \in 1 .. Len(issued) : issued[i].originalName = <<>>

\* C15 (as claimed): for every configuration the three uses of the path-style
\* flag agree: the S3 client is built with forcePathStyle if and only if the
\* PUT of upload carries no ACL, and, when a custom endpoint and no base URL
\* are configured, if and only if the url upload returns is the path-style
\* one (protocol + endpoint/bucket/key).
C15_PathStyleUsesAgree ==
    (current.op = "upload" /\ current.sent # <<>>)
        => /\ forcePathStyle(config) <=> (current.sent[1].ACL = Undefined)
           /\ (/\ current.result.status = "resolved"
               /\ ~Configured(config.file_url)
               /\ Configured(config.endpoint))
                 => (forcePathStyle(config)
                        <=> IsEndpointUrl(current.result.value.url, config.endpoint,
                                          TRUE, config.bucket, current.sent[1].Key))

\* s ends with suffix
EndsWith(s, suffix) ==
    /\ Len(s) >= Len(suffix)
    /\ SubSeq(s, Len(s) - Len(suffix) + 1, Len(s)) = suffix

\* C16: whenever upload has returned {url, key}, the store has acknowledged
\* the one PUT of the call, that PUT's Key is the returned key, the bucket
\* holds the PUT's body under it, and the url ends with "/" followed by the
\* key; an upload whose PUT was not acknowledged returns nothing.
C16_ReturnedKeyWasPut ==
    (current.op = "upload" /\ current.result.status = "resolved")
        => /\ current.pc = "done"
           /\ current.got.kind = "ok"
           /\ Len(current.sent) = 1
           /\ current.sent[1].cmd = "PutObject"
           /\ current.sent[1].Key = current.result.value.key
           /\ current.result.value.key \in DOMAIN store
           /\ store[current.result.value.key].Body = current.sent[1].Body
           /\ EndsWith(current.result.value.url,
                       <<"/">> \o current.result.value.key)

\* C16 witness: an upload has returned under a base URL that ends with a
\* path and a slash.
C16_Witness ==
    /\ Done("upload")
    /\ current.result.status = "resolved"
    /\ config.file_url = HTTP \o <<"c", "/", "p", "/">>
    /\ current.result.value.key \in DOMAIN store

====
